---------------------------- MODULE Spec2Model ----------------------------
(***************************************************************************)
(* Sim.B.A.D, Power_Energy_Estimation: the vessel/channel squat model      *)
(* (Modules/vessel_channel.py, class VesselProperties) and the             *)
(* grounding-speed scan of the two scenario scripts                        *)
(* (Cargo_UnrChannel_W400m_ho30m.py, Motorvessel_M6_W150m_ho3m.py).        *)
(*                                                                         *)
(* Floating-point numbers are fixed-point integers: the integer n stands   *)
(* for the real n / SC.  Three values outside the finite range stand for   *)
(* numpy's nan, +inf and -inf; a field that was never assigned (or is      *)
(* Python's None) holds None.  Every arithmetic operator below follows the *)
(* IEEE rules numpy applies to these values (nan propagates, x/0 is inf or *)
(* nan, every ordered comparison with nan is false).                       *)
(***************************************************************************)
EXTENDS Integers, Sequences, FiniteSets

(***************************************************************************)
(* Floating point                                                          *)
(***************************************************************************)
\* Resolution of the fixed-point numbers: 1.0 is SC.
SC == 10000
\* Largest finite magnitude (in units of 1/SC); results beyond it overflow to inf.
Huge == 500000000
Inf == 2000000000
NegInf == -2000000000
NaN == 2100000000
\* Python's None / an attribute that does not exist yet.
None == 2110000000

IsNaN(x) == x = NaN
IsInf(x) == x = Inf \/ x = NegInf
IsFinite(x) == x >= -Huge /\ x <= Huge

Abs(x) == IF x < 0 THEN -x ELSE x
Sign(x) == IF x < 0 THEN -1 ELSE IF x > 0 THEN 1 ELSE 0

\* A finite result, or the infinity it overflows to.
Overflow(x) == IF x > Huge THEN Inf ELSE IF x < -Huge THEN NegInf ELSE x
Signed(s, x) == IF IsInf(x) THEN (IF s < 0 THEN -x ELSE x) ELSE s * x

\* Ordered comparisons: false as soon as one side is nan.
FLe(a, b) == ~IsNaN(a) /\ ~IsNaN(b) /\ a <= b
FLt(a, b) == ~IsNaN(a) /\ ~IsNaN(b) /\ a < b
FGe(a, b) == FLe(b, a)
FGt(a, b) == FLt(b, a)

FNeg(a) == IF IsNaN(a) THEN NaN ELSE -a

FAdd(a, b) ==
    IF IsNaN(a) \/ IsNaN(b) THEN NaN
    ELSE IF IsInf(a) THEN (IF IsInf(b) /\ a # b THEN NaN ELSE a)
    ELSE IF IsInf(b) THEN b
    ELSE Overflow(a + b)

FSub(a, b) == FAdd(a, FNeg(b))

\* Product of two finite non-negative numbers, by limbs of SC so that no
\* intermediate product leaves the machine integers.
MulPos(a, b) ==
    LET a1 == a \div SC
        a0 == a % SC
        b1 == b \div SC
        b0 == b % SC
    IN  IF a1 > 0 /\ b1 > (Huge \div SC) \div a1 THEN Inf
        ELSE Overflow(a1 * b1 * SC + a1 * b0 + a0 * b1 + (a0 * b0) \div SC)

FMul(a, b) ==
    IF IsNaN(a) \/ IsNaN(b) THEN NaN
    ELSE IF IsInf(a) \/ IsInf(b)
         THEN (IF a = 0 \/ b = 0 THEN NaN
               ELSE IF Sign(a) * Sign(b) > 0 THEN Inf ELSE NegInf)
    ELSE Signed(Sign(a) * Sign(b), MulPos(Abs(a), Abs(b)))

\* Quotient of two finite numbers, a >= 0, b > 0, by long division.
RECURSIVE DivPos(_, _)
DivPos(a, b) ==
    IF b > 20000000 THEN DivPos(a \div 100, b \div 100)
    ELSE LET q  == a \div b
             r  == a % b
             q1 == (r * 100) \div b
             r1 == (r * 100) % b
             q2 == (r1 * 100) \div b
         IN  IF q > Huge \div SC THEN Inf ELSE Overflow(q * SC + q1 * 100 + q2)

\* numpy's division: x/0 is +-inf, 0/0 and inf/inf are nan.
FDiv(a, b) ==
    IF IsNaN(a) \/ IsNaN(b) THEN NaN
    ELSE IF IsInf(a) THEN (IF IsInf(b) THEN NaN
                           ELSE IF (a > 0) = (b >= 0) THEN Inf ELSE NegInf)
    ELSE IF IsInf(b) THEN 0
    ELSE IF b = 0 THEN (IF a = 0 THEN NaN ELSE IF a > 0 THEN Inf ELSE NegInf)
    ELSE Signed(Sign(a) * Sign(b), DivPos(Abs(a), Abs(b)))

\* Newton's iteration for the square root of a finite x > 0, from above.
RECURSIVE SqrtFrom(_, _)
SqrtFrom(x, y) ==
    LET y2 == (y + DivPos(x, y)) \div 2
    IN  IF y2 >= y \/ y2 = 0 THEN y ELSE SqrtFrom(x, y2)

\* np.sqrt: nan (with a RuntimeWarning, no exception) below zero.
FSqrt(x) ==
    IF IsNaN(x) \/ x < 0 THEN NaN
    ELSE IF x = Inf THEN Inf
    ELSE IF x = 0 THEN 0
    ELSE SqrtFrom(x, IF x > SC THEN x ELSE SC)

Ln2 == 6931

\* Natural logarithm of a finite x in [SC, 2*SC): 2*atanh((x-1)/(x+1)).
LnSeries(x) ==
    LET z  == DivPos(x - SC, x + SC)
        z2 == MulPos(z, z)
        z3 == MulPos(z, z2)
        z5 == MulPos(z3, z2)
        z7 == MulPos(z5, z2)
    IN  2 * (z + z3 \div 3 + z5 \div 5 + z7 \div 7)

RECURSIVE Ln(_)
Ln(x) ==
    IF x >= 2 * SC THEN Ln2 + Ln(x \div 2)
    ELSE IF x < SC THEN Ln(2 * x) - Ln2
    ELSE LnSeries(x)

\* e^r for a finite r in [0, Ln2).
ExpSeries(r) ==
    LET r2 == MulPos(r, r)
        r3 == MulPos(r2, r)
        r4 == MulPos(r3, r)
        r5 == MulPos(r4, r)
    IN  SC + r + r2 \div 2 + r3 \div 6 + r4 \div 24 + r5 \div 120

RECURSIVE Scale2(_, _)
Scale2(x, k) ==
    IF k = 0 \/ x = 0 \/ IsInf(x) THEN x
    ELSE IF k > 0 THEN Scale2(Overflow(2 * x), k - 1)
    ELSE Scale2(x \div 2, k + 1)

\* np.exp
FExp(y) ==
    IF IsNaN(y) THEN NaN
    ELSE IF y = Inf THEN Inf
    ELSE IF y = NegInf THEN 0
    ELSE IF y > 20 * SC THEN Inf
    ELSE IF y < -20 * SC THEN 0
    ELSE LET k == y \div Ln2
         IN  Scale2(ExpSeries(y - k * Ln2), k)

\* x ** y and np.power(x, y) on floats, for a finite exponent y: a negative
\* base gives nan (numpy), 0 ** negative gives inf.
FPow(x, y) ==
    IF IsNaN(x) \/ IsNaN(y) THEN NaN
    ELSE IF y = 0 THEN SC
    ELSE IF x < 0 THEN NaN
    ELSE IF x = 0 THEN (IF y > 0 THEN 0 ELSE Inf)
    ELSE IF x = Inf THEN (IF y > 0 THEN Inf ELSE 0)
    ELSE FExp(FMul(y, Ln(x)))

\* np.max of a list: nan as soon as one element is nan.
RECURSIVE FMax(_)
FMax(list1) ==
    IF Len(list1) = 1 THEN list1[1]
    ELSE LET m == FMax(Tail(list1))
             h == Head(list1)
         IN  IF IsNaN(h) \/ IsNaN(m) THEN NaN ELSE IF h >= m THEN h ELSE m

(***************************************************************************)
(* class VesselProperties                                                  *)
(*                                                                         *)
(* A method runs on a frame: the object (self), the exception raised so    *)
(* far ("none" while the method is still running) and the value returned.  *)
(* Each statement of the source is one operator on frames; a statement     *)
(* after a raised exception does nothing, so the attributes assigned       *)
(* before the exception stay assigned.                                     *)
(***************************************************************************)
Enter(o) == [self |-> o, exc |-> "none", ret |-> None]
Raised(f) == f.exc # "none"
Raise(f, e) == [f EXCEPT !.exc = e, !.ret = None]
Return(f, value) == IF Raised(f) THEN f ELSE [f EXCEPT !.ret = value]

\* The one element of a singleton: what a statement group left behind,
\* computed before the next group starts.
The(S) == CHOOSE x \in S : TRUE

\* h0 + Dwl, the water depth every formula uses.
Depth(o) == FAdd(o.h0, o.Dwl)

\* x**2 and np.power(x, 2), also of a negative x.
Square(x) == FMul(x, x)

\* VesselProperties.__init__: the constructor stores its arguments; no
\* derived attribute exists yet.
Vessel(data_vessel) ==
    [L |-> data_vessel.L, B |-> data_vessel.B,
     Tb |-> data_vessel.Tb, Ts |-> data_vessel.Ts,
     Displ |-> data_vessel.Displ,
     C_WP |-> data_vessel.C_WP, C_M |-> data_vessel.C_M,
     Npro |-> data_vessel.Npro,
     bulbous_bow |-> data_vessel.bulbous_bow,
     transom_stern |-> data_vessel.transom_stern,
     Dwl |-> data_vessel.Dwl, rho |-> data_vessel.rho,
     h0 |-> data_vessel.h0, hT |-> data_vessel.hT,
     W |-> data_vessel.W, Nb |-> data_vessel.Nb,
     safety_margin |-> data_vessel.safety_margin,
     Tm |-> None, Ukc |-> None, C_B |-> None, Disp |-> None, Weff |-> None,
     As |-> None, Ach |-> None, Kch |-> None, Kc |-> None, hm |-> None,
     hmT |-> None, Vcr |-> None, Vlim |-> None,
     Fnh |-> None, Shb |-> None,
     Kdt |-> None, Cf |-> None, Cv |-> None, Srb |-> None, Srs |-> None,
     Kps |-> None, Phu |-> None, Pfnh |-> None, Pht |-> None, Sh |-> None,
     Pch1 |-> None, Sab |-> None, Kpt |-> None, Kbt |-> None, Ktrt |-> None,
     Kt1t |-> None, Ktr |-> None, Phtm |-> None, Pch2 |-> None,
     Trim |-> None, Sas |-> None, Squat_v |-> None]

(***************************************************************************)
(* calculation_init                                                        *)
(***************************************************************************)
\* self.Tm = (self.Tb+self.Ts)/2
init_Tm(f) ==
    IF Raised(f) THEN f
    ELSE [f EXCEPT !.self.Tm = FDiv(FAdd(f.self.Tb, f.self.Ts), 2 * SC)]

\* self.Ukc = (self.h0+self.Dwl)/self.Tm
init_Ukc(f) ==
    IF Raised(f) THEN f
    ELSE IF f.self.Tm = 0 THEN Raise(f, "ZeroDivisionError")
    ELSE [f EXCEPT !.self.Ukc = FDiv(Depth(f.self), f.self.Tm)]

\* L*B*Tm*rho, the divisor of the block coefficient.
Volume(o) == FMul(FMul(FMul(o.L, o.B), o.Tm), o.rho)

\* self.C_B = self.Displ/(self.L*self.B*self.Tm*self.rho)
init_C_B(f) ==
    IF Raised(f) THEN f
    ELSE IF Volume(f.self) = 0 THEN Raise(f, "ZeroDivisionError")
    ELSE [f EXCEPT !.self.C_B = FDiv(f.self.Displ, Volume(f.self))]

\* self.Disp = self.Displ/self.rho
init_Disp(f) ==
    IF Raised(f) THEN f
    ELSE IF f.self.rho = 0 THEN Raise(f, "ZeroDivisionError")
    ELSE [f EXCEPT !.self.Disp = FDiv(f.self.Displ, f.self.rho)]

\* self.Weff = 7.04*self.B/(self.C_B**0.85)
init_Weff(f) ==
    IF Raised(f) THEN f
    ELSE IF FPow(f.self.C_B, 8500) = 0 THEN Raise(f, "ZeroDivisionError")
    ELSE [f EXCEPT !.self.Weff =
              FDiv(FMul(70400, f.self.B), FPow(f.self.C_B, 8500))]

\* if self.C_WP is None: self.C_WP = (1 + 2 * self.C_B) / 3
init_C_WP(f) ==
    IF Raised(f) \/ f.self.C_WP # None THEN f
    ELSE [f EXCEPT !.self.C_WP =
              FDiv(FAdd(SC, FMul(2 * SC, f.self.C_B)), 3 * SC)]

\* if self.C_M is None: self.C_M = 1.006 - 0.0056 * self.C_B ** (-3.56)
init_C_M(f) ==
    IF Raised(f) \/ f.self.C_M # None THEN f
    ELSE [f EXCEPT !.self.C_M =
              FSub(10060, FMul(56, FPow(f.self.C_B, -35600)))]

\* self.As += self.C_M*self.B*self.Tm: the section accumulated over the
\* calls instead of assigned.
init_As_accumulated(f) ==
    IF Raised(f) THEN f
    ELSE [f EXCEPT !.self.As =
              FAdd(IF f.self.As = None THEN 0 ELSE f.self.As,
                   FMul(FMul(f.self.C_M, f.self.B), f.self.Tm))]

\* self.As = self.C_M*self.B*self.Tm
init_As(f) ==
    IF Raised(f) THEN f
    ELSE [f EXCEPT !.self.As = FMul(FMul(f.self.C_M, f.self.B), f.self.Tm)]

\* if (self.h0+self.Dwl) < self.hT: self.hT = self.h0+self.Dwl
init_hT(f) ==
    IF Raised(f) \/ ~(Depth(f.self) < f.self.hT) THEN f
    ELSE [f EXCEPT !.self.hT = Depth(f.self)]

\* The branch W <= Weff with the assertion hT > 0 left out.
restricted_ok_any_hT(o) == o.hT <= Depth(o) /\ o.Nb >= 0

\* The assertions of the branch W <= Weff (lines 134, 135).
restricted_ok(o) == o.hT > 0 /\ o.hT <= Depth(o) /\ o.Nb >= 0

\* The branch W > Weff with the assertion Nb == 0 left out.
unrestricted_ok_any_Nb(o) == o.hT = 0

\* The assertions of the branch W > Weff (lines 138, 139).
unrestricted_ok(o) == o.hT = 0 /\ o.Nb = 0

\* if self.W <= self.Weff: the two assertions, then
\* self.Ach = (self.W+self.Nb*(self.h0+self.Dwl))*(self.h0+self.Dwl);
\* else: the two assertions, then self.Ach = self.Weff*(self.h0+self.Dwl)
init_Ach(f) ==
    IF Raised(f) THEN f
    ELSE IF FLe(f.self.W, f.self.Weff)
    THEN IF ~restricted_ok(f.self) THEN Raise(f, "AssertionError")
         ELSE [f EXCEPT !.self.Ach =
                   FMul(FAdd(f.self.W, FMul(f.self.Nb, Depth(f.self))),
                        Depth(f.self))]
    ELSE IF ~unrestricted_ok(f.self) THEN Raise(f, "AssertionError")
         ELSE [f EXCEPT !.self.Ach = FMul(f.self.Weff, Depth(f.self))]

\* assert self.Npro > 0
init_Npro(f) ==
    IF Raised(f) THEN f
    ELSE IF ~(f.self.Npro > 0) THEN Raise(f, "AssertionError")
    ELSE f

\* self.Kch = 0.58*((self.h0+self.Dwl)*self.L/self.B/self.Tm)**0.125
init_Kch(f) ==
    IF Raised(f) THEN f
    ELSE IF f.self.B = 0 THEN Raise(f, "ZeroDivisionError")
    ELSE [f EXCEPT !.self.Kch =
              FMul(5800, FPow(FDiv(FDiv(FMul(Depth(f.self), f.self.L),
                                        f.self.B), f.self.Tm), 1250))]

\* 2*cos((pi + arccos(x))/3) for x in [-1, 1]: with phi the angle, cos(3 phi)
\* = -x, so the value y is the root in [-1, 1] of y^3 - 3y + 2x = 0, found
\* by bisection (y^3 - 3y decreases on [-1, 1]).
RECURSIVE TwoCosThird(_, _, _)
TwoCosThird(x, lo, hi) ==
    IF hi - lo <= 1 THEN lo
    ELSE IF FSub(FMul((lo + hi) \div 2, Square((lo + hi) \div 2)),
                 3 * ((lo + hi) \div 2)) >= -2 * x
         THEN TwoCosThird(x, (lo + hi) \div 2, hi)
         ELSE TwoCosThird(x, lo, (lo + hi) \div 2)

\* (2*np.cos((np.pi+np.arccos(x))/3))**1.5: np.arccos gives nan outside
\* [-1, 1], and a negative base to the power 1.5 gives nan; neither raises.
RestrictedCoefficient(x) ==
    IF IsNaN(x) \/ x < -SC \/ x > SC THEN NaN
    ELSE FPow(TwoCosThird(x, -SC, SC + 1), 15000)

\* self.Kc = (2*np.cos((np.pi+np.arccos(1-self.As/self.Ach))/3))**1.5
init_Kc(f) ==
    IF Raised(f) THEN f
    ELSE IF f.self.Ach = 0 THEN Raise(f, "ZeroDivisionError")
    ELSE [f EXCEPT !.self.Kc =
              RestrictedCoefficient(FSub(SC, FDiv(f.self.As, f.self.Ach)))]

\* The divisor of hm: W + 2*Nb*(h0+Dwl) or Weff + 2*Nb*(h0+Dwl).
SurfaceWidth(o) ==
    FAdd(IF FLe(o.W, o.Weff) THEN o.W ELSE o.Weff,
         FMul(FMul(2 * SC, o.Nb), Depth(o)))

\* if self.W <= self.Weff: self.hm = self.Ach/(self.W+2*self.Nb*(h0+Dwl))
\* else: self.hm = self.Ach/(self.Weff+2*self.Nb*(h0+Dwl))
init_hm(f) ==
    IF Raised(f) THEN f
    ELSE IF SurfaceWidth(f.self) = 0 THEN Raise(f, "ZeroDivisionError")
    ELSE [f EXCEPT !.self.hm = FDiv(f.self.Ach, SurfaceWidth(f.self))]

\* self.hmT = (self.h0+self.Dwl)-self.hT*(1-self.hm/(self.h0+self.Dwl))
init_hmT(f) ==
    IF Raised(f) THEN f
    ELSE IF Depth(f.self) = 0 THEN Raise(f, "ZeroDivisionError")
    ELSE [f EXCEPT !.self.hmT =
              FSub(Depth(f.self),
                   FMul(f.self.hT,
                        FSub(SC, FDiv(f.self.hm, Depth(f.self)))))]

\* np.sqrt(9.81*x)
SqrtG(x) == FSqrt(FMul(98100, x))

\* The three-way case on hT that assigns self.Vcr; with no branch taken the
\* attribute keeps its value.
init_Vcr(f) ==
    IF Raised(f) THEN f
    ELSE IF f.self.hT = 0
    THEN [f EXCEPT !.self.Vcr = FMul(f.self.Kch, SqrtG(Depth(f.self)))]
    ELSE IF f.self.hT < Depth(f.self)
    THEN [f EXCEPT !.self.Vcr =
              FMul(FAdd(FMul(f.self.Kch,
                             FSub(SC, FDiv(f.self.hT, Depth(f.self)))),
                        FDiv(FMul(f.self.Kc, f.self.hT), Depth(f.self))),
                   SqrtG(f.self.hmT))]
    ELSE IF f.self.hT = Depth(f.self)
    THEN [f EXCEPT !.self.Vcr = FMul(f.self.Kc, SqrtG(f.self.hmT))]
    ELSE f

\* self.Vlim = self.Vcr
init_Vlim(f) ==
    IF Raised(f) THEN f
    ELSE IF f.self.Vcr = None THEN Raise(f, "AttributeError")
    ELSE [f EXCEPT !.self.Vlim = f.self.Vcr]

\* return self.Weff, self.Vlim
init_return(f) == Return(f, <<f.self.Weff, f.self.Vlim>>)

\* The statements of calculation_init up to self.As.
init_coefficients(f) ==
    init_As(init_C_M(init_C_WP(init_Weff(init_Disp(init_C_B(init_Ukc(
        init_Tm(f))))))))

\* The statements of calculation_init from the clamp of hT to the assertion
\* on Npro.
init_channel(f) == init_Npro(init_Ach(init_hT(f)))

\* The statements of calculation_init that compute the critical speed.
init_speeds(f) ==
    init_Vlim(init_Vcr(init_hmT(init_hm(init_Kc(init_Kch(f))))))

\* VesselProperties.calculation_init
calculation_init(f) ==
    The({init_return(init_speeds(c)) :
            c \in {init_channel(b) : b \in {init_coefficients(f)}}})

(***************************************************************************)
(* calculation_Hooft                                                       *)
(***************************************************************************)
\* self.Fnh = v/np.sqrt(9.81*(self.h0+self.Dwl))
squat_Fnh(f, v) ==
    IF Raised(f) THEN f
    ELSE [f EXCEPT !.self.Fnh = FDiv(v, SqrtG(Depth(f.self)))]

\* 2*C_B*B*Tm*(Fnh**2)/L/np.sqrt(1-Fnh**2): np.sqrt is nan for Fnh > 1 and 0
\* for Fnh = 1, and the division then gives nan or inf; nothing is raised.
HooftFormula(o) ==
    FDiv(FDiv(FMul(FMul(FMul(FMul(2 * SC, o.C_B), o.B), o.Tm),
                   Square(o.Fnh)), o.L),
         FSqrt(FSub(SC, Square(o.Fnh))))

\* if self.hT == 0: self.Shb = the formula, and 0 instead when
\* self.Ukc < 1.2 and self.C_B >= 0.8; else: self.Shb = 0
Hooft_Shb(f) ==
    IF Raised(f) THEN f
    ELSE IF f.self.hT = 0
    THEN IF FLt(f.self.Ukc, 12000) /\ FGe(f.self.C_B, 8000)
         THEN [f EXCEPT !.self.Shb = 0]
         ELSE [f EXCEPT !.self.Shb = HooftFormula(f.self)]
    ELSE [f EXCEPT !.self.Shb = 0]

\* VesselProperties.calculation_Hooft
calculation_Hooft(f, v) == Hooft_Shb(squat_Fnh(f, v))

(***************************************************************************)
(* calculation_Romisch                                                     *)
(***************************************************************************)
\* self.Kdt = 0.155*np.sqrt((self.h0+self.Dwl)/self.Tm)
Romisch_Kdt(f) ==
    IF Raised(f) THEN f
    ELSE [f EXCEPT !.self.Kdt = FMul(1550, FSqrt(FDiv(Depth(f.self),
                                                      f.self.Tm)))]

\* self.Cf = (10*self.B*self.C_B/self.L)**2
Romisch_Cf(f) ==
    IF Raised(f) THEN f
    ELSE [f EXCEPT !.self.Cf =
              Square(FDiv(FMul(FMul(10 * SC, f.self.B), f.self.C_B),
                          f.self.L))]

\* 8*np.power(r,2)*(0.0625+np.power(r-0.5,4)) for r = v/Vcr
RomischCv(r) ==
    FMul(FMul(8 * SC, Square(r)), FAdd(625, Square(Square(FSub(r, 5000)))))

\* self.Cv = 8*np.power(v/self.Vcr,2)*(0.0625+np.power(v/self.Vcr-0.5,4))
Romisch_Cv(f, v) ==
    IF Raised(f) THEN f
    ELSE [f EXCEPT !.self.Cv = RomischCv(FDiv(v, f.self.Vcr))]

\* Vnoeu = v*3600/1852, the speed in knots.
Knots(v) == FDiv(FMul(v, 3600 * SC), 1852 * SC)

\* self.Cv*self.Cf*self.Kdt*self.Tm
RomischFormula(o) == FMul(FMul(FMul(o.Cv, o.Cf), o.Kdt), o.Tm)

\* The branch on hT of calculation_Romisch that assigns self.Srb; with no
\* branch taken the attribute keeps its value.
Romisch_Srb(f, v) ==
    IF Raised(f) THEN f
    ELSE IF f.self.hT = 0
    THEN IF FLt(f.self.Ukc, 12000) /\ FLt(f.self.C_B, 8000)
         THEN [f EXCEPT !.self.Srb = 0]
         ELSE [f EXCEPT !.self.Srb = RomischFormula(f.self)]
    ELSE IF f.self.hT < Depth(f.self)
    THEN [f EXCEPT !.self.Srb = 0]
    ELSE IF f.self.hT = Depth(f.self)
    THEN IF FLt(f.self.Ukc, 12000) /\ FGt(f.self.C_B, 8000)
            /\ FLt(Knots(v), 7 * SC)
         THEN [f EXCEPT !.self.Srb = 0]
         ELSE [f EXCEPT !.self.Srb = RomischFormula(f.self)]
    ELSE f

\* The branch on hT of calculation_Romisch that assigns self.Srs.
Romisch_Srs(f) ==
    IF Raised(f) THEN f
    ELSE IF f.self.hT = 0 \/ f.self.hT = Depth(f.self)
    THEN [f EXCEPT !.self.Srs = FDiv(f.self.Srb, f.self.Cf)]
    ELSE IF f.self.hT < Depth(f.self)
    THEN [f EXCEPT !.self.Srs = 0]
    ELSE f

\* return self.Srb, self.Srs
Romisch_return(f) ==
    IF Raised(f) THEN f
    ELSE IF f.self.Srb = None \/ f.self.Srs = None
    THEN Raise(f, "AttributeError")
    ELSE f

\* VesselProperties.calculation_Romisch
calculation_Romisch(f, v) ==
    Romisch_return(Romisch_Srs(Romisch_Srb(Romisch_Cv(Romisch_Cf(
        Romisch_Kdt(f)), v), v)))

(***************************************************************************)
(* calculation_Ankudinov                                                   *)
(***************************************************************************)
\* if self.Npro == 1: self.Kps = 0.15 else: self.Kps = 0.13
Ankudinov_Kps(f) ==
    IF Raised(f) THEN f
    ELSE [f EXCEPT !.self.Kps = IF f.self.Npro = 1 THEN 1500 ELSE 1300]

\* self.Phu = 1.7*self.C_B*(self.B*self.Tm/self.L**2)+0.004*self.C_B**2
Ankudinov_Phu(f) ==
    IF Raised(f) THEN f
    ELSE [f EXCEPT !.self.Phu =
              FAdd(FMul(FMul(17000, f.self.C_B),
                        FDiv(FMul(f.self.B, f.self.Tm), Square(f.self.L))),
                   FMul(40, Square(f.self.C_B)))]

\* self.Pfnh = np.power(self.Fnh,1.8+0.4*self.Fnh)
Ankudinov_Pfnh(f) ==
    IF Raised(f) THEN f
    ELSE [f EXCEPT !.self.Pfnh =
              FPow(f.self.Fnh, FAdd(18000, FMul(4000, f.self.Fnh)))]

\* self.Pht = 1+0.35/self.Ukc**2
Ankudinov_Pht(f) ==
    IF Raised(f) THEN f
    ELSE IF Square(f.self.Ukc) = 0 THEN Raise(f, "ZeroDivisionError")
    ELSE [f EXCEPT !.self.Pht = FAdd(SC, FDiv(3500, Square(f.self.Ukc)))]

\* self.Sh = self.C_B*self.Tm*self.hT*self.As/self.Ach/(self.h0+self.Dwl)**2
Ankudinov_Sh(f) ==
    IF Raised(f) THEN f
    ELSE [f EXCEPT !.self.Sh =
              FDiv(FDiv(FMul(FMul(FMul(f.self.C_B, f.self.Tm), f.self.hT),
                             f.self.As), f.self.Ach),
                   Square(Depth(f.self)))]

\* if self.hT == 0: self.Pch1 = 1
\* else: self.Pch1 = 1+10*self.Sh-1.5*(1+self.Sh)*np.sqrt(self.Sh)
Ankudinov_Pch1(f) ==
    IF Raised(f) THEN f
    ELSE IF f.self.hT = 0 THEN [f EXCEPT !.self.Pch1 = SC]
    ELSE [f EXCEPT !.self.Pch1 =
              FSub(FAdd(SC, FMul(10 * SC, f.self.Sh)),
                   FMul(FMul(15000, FAdd(SC, f.self.Sh)), FSqrt(f.self.Sh)))]

\* self.Sab = self.L*(1+self.Kps)*self.Phu*self.Pfnh*self.Pht*self.Pch1
Ankudinov_Sab(f) ==
    IF Raised(f) THEN f
    ELSE [f EXCEPT !.self.Sab =
              FMul(FMul(FMul(FMul(FMul(f.self.L, FAdd(SC, f.self.Kps)),
                                  f.self.Phu), f.self.Pfnh), f.self.Pht),
                   f.self.Pch1)]

\* if self.Npro == 1: self.Kpt = 0.15 else: self.Kpt = 0.20
Ankudinov_Kpt(f) ==
    IF Raised(f) THEN f
    ELSE [f EXCEPT !.self.Kpt = IF f.self.Npro = 1 THEN 1500 ELSE 2000]

\* if self.bulbous_bow: self.Kbt = 0.1 else: self.Kbt = 0
Ankudinov_Kbt(f) ==
    IF Raised(f) THEN f
    ELSE [f EXCEPT !.self.Kbt = IF f.self.bulbous_bow THEN 1000 ELSE 0]

\* if self.transom_stern: self.Ktrt = 0.04 else: self.Ktrt = 0
Ankudinov_Ktrt(f) ==
    IF Raised(f) THEN f
    ELSE [f EXCEPT !.self.Ktrt = IF f.self.transom_stern THEN 400 ELSE 0]

\* self.Kt1t = (self.Ts - self.Tb)/(self.Ts+self.Tb)
Ankudinov_Kt1t(f) ==
    IF Raised(f) THEN f
    ELSE IF FAdd(f.self.Ts, f.self.Tb) = 0 THEN Raise(f, "ZeroDivisionError")
    ELSE [f EXCEPT !.self.Kt1t = FDiv(FSub(f.self.Ts, f.self.Tb),
                                      FAdd(f.self.Ts, f.self.Tb))]

\* self.Ktr = np.power(self.C_B,2+0.8*self.Pch1/self.C_B)
\*            -(0.15*self.Kps+self.Kpt)-(self.Kbt+self.Ktrt+self.Kt1t)
Ankudinov_Ktr(f) ==
    IF Raised(f) THEN f
    ELSE [f EXCEPT !.self.Ktr =
              FSub(FSub(FPow(f.self.C_B,
                             FAdd(2 * SC, FDiv(FMul(8000, f.self.Pch1),
                                               f.self.C_B))),
                        FAdd(FMul(1500, f.self.Kps), f.self.Kpt)),
                   FAdd(FAdd(f.self.Kbt, f.self.Ktrt), f.self.Kt1t))]

\* self.Phtm = 1-np.exp(2.5*(1-self.Ukc)/self.Fnh)
Ankudinov_Phtm(f) ==
    IF Raised(f) THEN f
    ELSE [f EXCEPT !.self.Phtm =
              FSub(SC, FExp(FDiv(FMul(25000, FSub(SC, f.self.Ukc)),
                                 f.self.Fnh)))]

\* if self.hT == 0: self.Pch2 = 1 else: self.Pch2 = 1-5*self.Sh
Ankudinov_Pch2(f) ==
    IF Raised(f) THEN f
    ELSE IF f.self.hT = 0 THEN [f EXCEPT !.self.Pch2 = SC]
    ELSE [f EXCEPT !.self.Pch2 = FSub(SC, FMul(5 * SC, f.self.Sh))]

\* self.Trim = -1.7*self.L*self.Phu*self.Pfnh*self.Phtm*self.Ktr*self.Pch2
Ankudinov_Trim(f) ==
    IF Raised(f) THEN f
    ELSE [f EXCEPT !.self.Trim =
              FMul(FMul(FMul(FMul(FMul(FMul(-17000, f.self.L), f.self.Phu),
                                  f.self.Pfnh), f.self.Phtm), f.self.Ktr),
                   f.self.Pch2)]

\* self.Sas = self.Sab+0.5*self.Trim; self.Sab = self.Sab-0.5*self.Trim
bow_and_stern(f) ==
    [f EXCEPT !.self.Sas = FAdd(f.self.Sab, FMul(5000, f.self.Trim)),
              !.self.Sab = FSub(f.self.Sab, FMul(5000, f.self.Trim))]

\* Sab = 0; Sas = 0
no_Ankudinov(f) == [f EXCEPT !.self.Sab = 0, !.self.Sas = 0]

\* The closing case on hT of calculation_Ankudinov: both squats forced to
\* zero for hT = 0, bow and stern from Sab and Trim otherwise, and in a canal
\* zero again when Ukc < 1.2, C_B > 0.8 and the speed is above 7 knots.
Ankudinov_squats(f, v) ==
    IF Raised(f) THEN f
    ELSE IF f.self.hT = 0 THEN no_Ankudinov(f)
    ELSE IF f.self.hT < Depth(f.self) THEN bow_and_stern(f)
    ELSE IF f.self.hT = Depth(f.self)
    THEN IF FLt(f.self.Ukc, 12000) /\ FGt(f.self.C_B, 8000)
            /\ FGt(Knots(v), 7 * SC)
         THEN no_Ankudinov(f)
         ELSE bow_and_stern(f)
    ELSE f

\* return self.Sab, self.Sas
Ankudinov_return(f) ==
    IF Raised(f) THEN f
    ELSE IF f.self.Sas = None THEN Raise(f, "AttributeError")
    ELSE f

\* The statements of calculation_Ankudinov that end with the bow squat.
Ankudinov_bow(f, v) ==
    Ankudinov_Sab(Ankudinov_Pch1(Ankudinov_Sh(Ankudinov_Pht(Ankudinov_Pfnh(
        squat_Fnh(Ankudinov_Phu(Ankudinov_Kps(f)), v))))))

\* The statements of calculation_Ankudinov that end with the trim.
Ankudinov_trim(f) ==
    Ankudinov_Trim(Ankudinov_Pch2(Ankudinov_Phtm(Ankudinov_Ktr(
        Ankudinov_Kt1t(Ankudinov_Ktrt(Ankudinov_Kbt(Ankudinov_Kpt(f))))))))

\* VesselProperties.calculation_Ankudinov
calculation_Ankudinov(f, v) ==
    The({Ankudinov_return(Ankudinov_squats(Ankudinov_trim(b), v)) :
            b \in {Ankudinov_bow(f, v)}})

(***************************************************************************)
(* calculate_squat                                                         *)
(***************************************************************************)
\* The channel type the case on hT distinguishes.
channel_type(o) ==
    IF o.hT = 0 THEN "unrestricted"
    ELSE IF o.hT < Depth(o) THEN "restricted"
    ELSE IF o.hT = Depth(o) THEN "canal"
    ELSE "none"

\* list1 with the canal taking the list of the restricted channel.
governing_list_canal_as_restricted(o) ==
    IF o.hT = 0 THEN <<o.Shb, o.Srb, o.Srs>> ELSE <<o.Sab, o.Sas>>

\* list1 of the branch taken.
governing_list(o) ==
    IF o.hT = 0 THEN <<o.Shb, o.Srb, o.Srs>>
    ELSE IF o.hT < Depth(o) THEN <<o.Sab, o.Sas>>
    ELSE <<o.Sab, o.Sas, o.Srb, o.Srs>>

\* self.Squat_v = np.max(list1 + [self.Squat_v]): the maximum taken over the
\* squat of the call before as well.
governing_squat_running_max(f) ==
    IF Raised(f) \/ channel_type(f.self) = "none" THEN f
    ELSE IF f.self.Squat_v = None
    THEN [f EXCEPT !.self.Squat_v = FMax(governing_list(f.self))]
    ELSE [f EXCEPT !.self.Squat_v =
              FMax(Append(governing_list(f.self), f.self.Squat_v))]

\* self.Squat_v = np.max(list1), in the branch of the channel type; with no
\* branch taken the attribute keeps its value.
governing_squat(f) ==
    IF Raised(f) \/ channel_type(f.self) = "none" THEN f
    ELSE [f EXCEPT !.self.Squat_v = FMax(governing_list(f.self))]

\* return self.Squat_v
squat_return(f) ==
    IF Raised(f) THEN f
    ELSE IF f.self.Squat_v = None THEN Raise(f, "AttributeError")
    ELSE Return(f, f.self.Squat_v)

\* VesselProperties.calculate_squat: calculation_init, the three formulas
\* (each stores the attributes it returns), the governing squat.
calculate_squat(f, v) ==
    The({squat_return(governing_squat(calculation_Ankudinov(r, v))) :
            r \in {calculation_Romisch(calculation_Hooft(c, v), v) :
                       c \in {calculation_init(f)}}})

(***************************************************************************)
(* The scenario scripts and the callers of the class                       *)
(***************************************************************************)
\* Number of sampled speeds of the scan; the scripts take 1000.
NSamples == 3

\* data_vessel as the Motorvessel script gives it.
Motorvessel ==
    [type |-> "M6", L |-> 85 * SC, B |-> 95000, Tb |-> 2 * SC, Ts |-> 2 * SC,
     Displ |-> 1373 * SC, C_WP |-> None, C_M |-> None, Npro |-> 2,
     bulbous_bow |-> FALSE, transom_stern |-> FALSE, rho |-> SC, Dwl |-> 0,
     h0 |-> 3 * SC, hT |-> 0, W |-> 150 * SC, Nb |-> 0,
     safety_margin |-> 2000]

\* data_vessel with the channel, the propellers and the safety margin varied.
ChannelScenarios ==
    [type : {"M6"}, L : {85 * SC}, B : {95000}, Tb : {2 * SC}, Ts : {2 * SC},
     Displ : {1373 * SC}, C_WP : {None}, C_M : {None},
     Npro : {0, 2}, bulbous_bow : {FALSE}, transom_stern : {FALSE},
     rho : {SC}, Dwl : {0}, h0 : {3 * SC},
     hT : {-SC, 0, SC, 3 * SC, 5 * SC},
     W : {3 * SC, 63200, 50 * SC, 150 * SC},
     Nb : {-SC, 0, SC},
     safety_margin : {2000, 8000, 12000}]

\* data_vessel with the water as deep as the draught, between banks 0.08 m
\* apart that rise to half the depth.
NarrowScenarios ==
    {[Motorvessel EXCEPT !.h0 = 2 * SC, !.hT = SC, !.W = 800]}

\* data_vessel with one of the dimensions L, Tb and Ts, Displ, rho zero.
ZeroScenarios ==
    {[Motorvessel EXCEPT !.L = 0], [Motorvessel EXCEPT !.Tb = 0, !.Ts = 0],
     [Motorvessel EXCEPT !.Displ = 0], [Motorvessel EXCEPT !.rho = 0]}

\* The scenarios an object is built from.
Scenarios == ChannelScenarios \cup NarrowScenarios \cup ZeroScenarios

\* Speeds a caller of the class evaluates the squat at.
Speeds == {2 * SC, 6 * SC}

\* Upper ends of the scanned speed range; the scripts take 20.0.
VmaxChoices == {4 * SC, 20 * SC}

VARIABLES
    data,        \* the input fields as the callers gave them
    bateau,      \* the VesselProperties object
    pc,          \* where the caller is
    last,        \* the last method call on bateau and its outcome
    Weff, Vlim,  \* the script's globals
    z_given, Vmax, velocity, Squat_v, i, v, diff,
    evaluated,   \* the sample indices calculate_squat was called at, in order
    grounding_v,
    out,         \* what the script printed after the scan
    error        \* the exception that ended the script

vars == <<data, bateau, pc, last, Weff, Vlim, z_given, Vmax, velocity, Squat_v,
          i, v, diff, evaluated, grounding_v, out, error>>

scan_vars == <<z_given, Vmax, velocity, Squat_v, i, v, diff, evaluated,
               grounding_v, out>>

\* The record of a method call: the method, its argument, the object before
\* the call, whether a field of the object was changed since the call before,
\* the exception raised, the value returned and, for calculate_squat, the
\* branch of the channel type that assigned Squat_v.
Call(op, arg, r) ==
    [op |-> op, v |-> arg, before |-> bateau, edited |-> pc = "edited",
     exc |-> r.exc, ret |-> r.ret,
     branch |-> IF op = "calculate_squat" /\ r.exc = "none"
                THEN channel_type(r.self) ELSE "none"]

\* bateau = TransportResource(**data_vessel, **data_moteur)
Init ==
    /\ data \in Scenarios
    /\ bateau = Vessel(data)
    /\ pc = "new"
    /\ last = [op |-> "none", v |-> None, before |-> Vessel(data),
               edited |-> FALSE, exc |-> "none", ret |-> None,
               branch |-> "none"]
    /\ Weff = None /\ Vlim = None /\ z_given = None /\ Vmax = None
    /\ velocity = <<>> /\ Squat_v = None
    /\ i = None /\ v = None /\ diff = None
    /\ evaluated = <<>>
    /\ grounding_v = None
    /\ out = "none"
    /\ error = "none"

\* Any caller: bateau.calculation_init()
CallInit ==
    /\ pc \in {"new", "api", "edited", "again"}
    /\ \E r \in {calculation_init(Enter(bateau))} :
           /\ bateau' = r.self
           /\ last' = Call("calculation_init", None, r)
    /\ pc' = IF pc \in {"edited", "again"} THEN "again" ELSE "api"
    /\ UNCHANGED <<data, Weff, Vlim, scan_vars, error>>

\* Any caller: bateau.calculate_squat(v)
CallSquat ==
    /\ pc \in {"new", "api", "edited", "again"}
    /\ \E speed \in Speeds :
       \E r \in {calculate_squat(Enter(bateau), speed)} :
           /\ bateau' = r.self
           /\ last' = Call("calculate_squat", speed, r)
    /\ pc' = IF pc \in {"edited", "again"} THEN "again" ELSE "api"
    /\ UNCHANGED <<data, Weff, Vlim, scan_vars, error>>

\* Water depths a caller changes the field h0 to.
Depths == {6 * SC}

\* Any caller, between two calls: bateau.h0 = depth
SetDepth ==
    /\ pc = "api"
    /\ \E depth \in Depths \ {bateau.h0} :
           /\ data' = [data EXCEPT !.h0 = depth]
           /\ bateau' = [bateau EXCEPT !.h0 = depth]
    /\ pc' = "edited"
    /\ UNCHANGED <<last, Weff, Vlim, scan_vars, error>>

\* Weff, Vlim = bateau.calculation_init()
ScriptInit ==
    /\ pc = "new"
    /\ \E r \in {calculation_init(Enter(bateau))} :
           /\ bateau' = r.self
           /\ last' = Call("calculation_init", None, r)
           /\ IF r.exc = "none"
              THEN /\ Weff' = r.ret[1] /\ Vlim' = r.ret[2]
                   /\ pc' = "squat_Vlim" /\ error' = error
              ELSE /\ UNCHANGED <<Weff, Vlim>>
                   /\ pc' = "raised" /\ error' = r.exc
    /\ UNCHANGED <<data, scan_vars>>

\* Squat_v = bateau.calculate_squat(Vlim)
ScriptSquat ==
    /\ pc = "squat_Vlim"
    /\ \E r \in {calculate_squat(Enter(bateau), Vlim)} :
           /\ bateau' = r.self
           /\ last' = Call("calculate_squat", Vlim, r)
           /\ IF r.exc = "none"
              THEN /\ Squat_v' = r.ret /\ pc' = "scan" /\ error' = error
              ELSE /\ Squat_v' = Squat_v /\ pc' = "raised" /\ error' = r.exc
    /\ UNCHANGED <<data, Weff, Vlim, z_given, Vmax, velocity, i, v, diff,
                   evaluated, grounding_v, out>>

\* A linspace whose step is not divided by the number of intervals.
linspace_undivided(top) == [k \in 0 .. NSamples - 1 |-> 100 + k * (top - 100)]

\* np.linspace(0.01, Vmax, NSamples), indexed from 0.
linspace(top) ==
    [k \in 0 .. NSamples - 1 |-> 100 + (k * (top - 100)) \div (NSamples - 1)]

\* np.zeros(NSamples)
zeros == [k \in 0 .. NSamples - 1 |-> 0]

\* diff = z_given - Squat_v[i] - bateau.safety_margin
clearance(z, squat, margin) == FSub(FSub(z, squat), margin)

\* A loop condition that looks at the speed only.
scan_continues_speed_only(d, speed, limit) == FLe(speed, limit)

\* The loop condition: while diff >= 0 and v <= Vlim
scan_continues(d, speed, limit) == FGe(d, 0) /\ FLe(speed, limit)

\* From z_given = ... to v = velocity[0]: the first sample is evaluated
\* before the loop.
ScanStart ==
    /\ pc = "scan"
    /\ \E top \in VmaxChoices :
       \E r \in {calculate_squat(Enter(bateau), linspace(top)[0])} :
           /\ z_given' = FSub(Depth(bateau), bateau.Tm)
           /\ Vmax' = top
           /\ velocity' = linspace(top)
           /\ bateau' = r.self
           /\ last' = Call("calculate_squat", linspace(top)[0], r)
           /\ evaluated' = <<0>>
           /\ IF r.exc = "none"
              THEN /\ Squat_v' = [zeros EXCEPT ![0] = r.ret]
                   /\ i' = 0
                   /\ diff' = clearance(FSub(Depth(bateau), bateau.Tm), r.ret,
                                        r.self.safety_margin)
                   /\ v' = linspace(top)[0]
                   /\ pc' = "loop" /\ error' = error
              ELSE /\ Squat_v' = zeros
                   /\ UNCHANGED <<i, v, diff>>
                   /\ pc' = "raised" /\ error' = r.exc
    /\ UNCHANGED <<data, Weff, Vlim, grounding_v, out>>

\* One pass of the loop body: i += 1, then velocity[i], which raises
\* IndexError past the last sample.
ScanStep ==
    /\ pc = "loop"
    /\ scan_continues(diff, v, Vlim)
    /\ i' = i + 1
    /\ IF i + 1 \notin DOMAIN velocity
       THEN /\ pc' = "raised" /\ error' = "IndexError"
            /\ UNCHANGED <<bateau, last, Squat_v, v, diff, evaluated>>
       ELSE \E r \in {calculate_squat(Enter(bateau), velocity[i + 1])} :
                /\ v' = velocity[i + 1]
                /\ bateau' = r.self
                /\ last' = Call("calculate_squat", velocity[i + 1], r)
                /\ evaluated' = Append(evaluated, i + 1)
                /\ IF r.exc = "none"
                   THEN /\ Squat_v' = [Squat_v EXCEPT ![i + 1] = r.ret]
                        /\ diff' = clearance(z_given, r.ret,
                                             r.self.safety_margin)
                        /\ pc' = "loop" /\ error' = error
                   ELSE /\ UNCHANGED <<Squat_v, diff>>
                        /\ pc' = "raised" /\ error' = r.exc
    /\ UNCHANGED <<data, Weff, Vlim, z_given, Vmax, velocity, grounding_v, out>>

\* The two reports: the limit-speed message, and the grounding velocity with
\* its squat.
limit_message == "Grounding velocity greater than Limit speed"
grounding_message == "Grounding velocity and Squat"

\* A report that never compares the grounding velocity with the limit speed.
report_grounding_always(speed, limit) == grounding_message

\* What the script prints for a grounding speed and the limit speed.
report(speed, limit) ==
    IF FGt(speed, limit) THEN limit_message ELSE grounding_message

\* After the loop: imax = i, grounding_v = velocity[imax] and the report.
ScanEnd ==
    /\ pc = "loop"
    /\ ~scan_continues(diff, v, Vlim)
    /\ grounding_v' = velocity[i]
    /\ out' = report(velocity[i], Vlim)
    /\ pc' = "done"
    /\ UNCHANGED <<data, bateau, last, Weff, Vlim, z_given, Vmax, velocity,
                   Squat_v, i, v, diff, evaluated, error>>

Next ==
    \/ CallInit
    \/ CallSquat
    \/ SetDepth
    \/ ScriptInit
    \/ ScriptSquat
    \/ ScanStart
    \/ ScanStep
    \/ ScanEnd

Spec == Init /\ [][Next]_vars
(***************************************************************************)
(* Properties of the grounding-speed scan                                  *)
(***************************************************************************)
\* The scan has ended: the report is printed, or velocity[i] raised.
ScanOver == pc = "done" \/ error = "IndexError"

\* z_given - Squat_v[k] - bateau.safety_margin: the remaining clearance at
\* the sample k the scan evaluated.
remaining(k) == FSub(FSub(z_given, Squat_v[k]), bateau.safety_margin)

\* The samples the scan evaluated, 0 .. i, in increasing order.
visited == [k \in 1 .. i + 1 |-> k - 1]

\* C1, as the specification states it: the grounding speed velocity[imax]
\* the scan returns exceeds neither the last sampled speed Vmax nor the
\* limit speed Vlim.
C1_never_above_limit ==
    pc = "done" => ~FGt(grounding_v, Vmax) /\ ~FGt(grounding_v, Vlim)

\* C1, as the code has it: velocity[imax] never exceeds the last sampled
\* speed Vmax; it does exceed the limit speed Vlim when the scan stops on the
\* speed condition, and then every sample before it is at most Vlim and the
\* script prints the limit-speed message instead of a grounding speed.
C1_bounded_by_Vmax ==
    pc = "done" =>
        /\ grounding_v = velocity[i]
        /\ FLe(grounding_v, Vmax)
        /\ FGt(grounding_v, Vlim) =>
               /\ \A k \in 0 .. i - 1 : FLe(velocity[k], Vlim)
               /\ out = limit_message

\* A scan that passed a sample below the limit speed and returned one above.
C1_first_above_limit == pc = "done" /\ i > 0 /\ FGt(grounding_v, Vlim)

\* C2: the scan visits the samples in increasing order from the lowest one;
\* the sample it returns is the first at which diff is negative or v exceeds
\* the limit speed, every sample before it has diff >= 0 and v <= Vlim, and
\* no sample after it is evaluated.
C2_first_violation ==
    pc = "done" =>
        /\ evaluated = visited
        /\ FLt(remaining(i), 0) \/ FGt(velocity[i], Vlim)
        /\ \A k \in 0 .. i - 1 :
               FGe(remaining(k), 0) /\ FLe(velocity[k], Vlim)

\* C3, as the specification states it: at the grounding speed the script
\* reports, the remaining clearance z_given - squat(v) - safety_margin is
\* still non-negative.
C3_clearance_kept ==
    pc = "done" /\ out = grounding_message => FGe(remaining(i), 0)

\* C3, as the code has it: the grounding speed the script reports is the
\* first sample at which the remaining clearance is no longer non-negative;
\* every lower sample has a remaining clearance >= 0.  Only a NaN limit speed
\* makes the script report the first sample whatever its clearance.
C3_clearance_exhausted ==
    pc = "done" /\ out = grounding_message =>
        /\ ~FGe(remaining(i), 0) \/ IsNaN(Vlim)
        /\ \A k \in 0 .. i - 1 : FGe(remaining(k), 0)

\* A grounding speed reported after lower samples were passed, with a
\* negative remaining clearance.
C3_grounded_later ==
    pc = "done" /\ out = grounding_message /\ i > 0 /\ FLt(remaining(i), 0)

\* C4: if the remaining clearance is never negative on a sample up to the
\* limit speed (a number), the scan ends with the limit-speed message and
\* reports no grounding speed.
C4_limit_outcome ==
    (/\ ScanOver
     /\ ~IsNaN(Vlim)
     /\ \A k \in 1 .. Len(evaluated) :
            FLe(velocity[evaluated[k]], Vlim) =>
                ~FLt(remaining(evaluated[k]), 0))
    => pc = "done" /\ out = limit_message

\* C5, as the specification states it: when the clearance is already
\* negative at the lowest sample, the scan ends without a pass of the loop
\* body and without an error, and reports the first sample as the grounding
\* speed with its squat.
C5_first_sample_reported ==
    ScanOver /\ FLt(remaining(0), 0) =>
        /\ pc = "done" /\ i = 0 /\ evaluated = <<0>>
        /\ grounding_v = velocity[0]
        /\ out = grounding_message

\* C5, as the code has it: when the clearance is already negative at the
\* lowest sample, the loop body never runs and nothing is raised; the scan
\* returns the first sample, and the script reports it with the squat
\* computed there unless that sample is above the limit speed, in which case
\* it prints the limit-speed message.
C5_first_sample_returned ==
    (pc \in {"loop", "done"} \/ error = "IndexError") /\ FLt(remaining(0), 0)
    =>  /\ i = 0 /\ evaluated = <<0>> /\ error = "none"
        /\ last.v = velocity[0] /\ last.ret = Squat_v[0]
        /\ pc = "done" =>
               /\ grounding_v = velocity[0]
               /\ out = IF FGt(velocity[0], Vlim) THEN limit_message
                                                  ELSE grounding_message

\* The clearance is negative at the lowest sample and that sample is above
\* the limit speed: the script prints the limit-speed message.
C5_limit_at_first_sample ==
    pc = "done" /\ FLt(remaining(0), 0) /\ out = limit_message

(***************************************************************************)
(* Properties of class VesselProperties                                    *)
(***************************************************************************)
\* The last call was this method and returned, and no field was changed
\* since.
Returned(op) == last.op = op /\ last.exc = "none" /\ pc # "edited"

\* How many of hT = 0, 0 < hT < h0+Dwl and hT = h0+Dwl hold of the object.
types_holding(o) ==
    Cardinality({c \in 1 .. 3 : \/ c = 1 /\ o.hT = 0
                                \/ c = 2 /\ 0 < o.hT /\ o.hT < Depth(o)
                                \/ c = 3 /\ o.hT = Depth(o)})

\* C6: after a successful calculation_init exactly one of hT = 0,
\* 0 < hT < h0+Dwl, hT = h0+Dwl holds, an input hT above h0+Dwl being
\* clamped to h0+Dwl; calculate_squat takes the branch of that channel type,
\* so it assigns the squat it returns in the call itself.
C6_channel_type ==
    /\ last.exc # "AttributeError"
    /\ Returned("calculation_init") \/ Returned("calculate_squat") =>
           /\ types_holding(bateau) = 1
           /\ data.hT > Depth(bateau) => bateau.hT = Depth(bateau)
    /\ Returned("calculate_squat") =>
           /\ last.branch = IF bateau.hT = 0 THEN "unrestricted"
                            ELSE IF bateau.hT = Depth(bateau) THEN "canal"
                            ELSE "restricted"
           /\ bateau.Squat_v # None
           /\ last.ret = bateau.Squat_v

\* calculate_squat returned for an input hT above h0+Dwl: the canal branch.
C6_clamped_canal ==
    /\ Returned("calculate_squat")
    /\ data.hT > Depth(bateau)
    /\ last.branch = "canal"

\* C7: calculate_squat returns max(Shb, Srb, Srs) for hT = 0, with Sab and
\* Sas forced to 0; max(Sab, Sas) for 0 < hT < h0+Dwl, with Shb, Srb and Srs
\* forced to 0; max(Sab, Sas, Srb, Srs) for hT = h0+Dwl, with Shb forced
\* to 0.
C7_governing_squat ==
    Returned("calculate_squat") =>
        IF bateau.hT = 0
        THEN /\ last.ret = FMax(<<bateau.Shb, bateau.Srb, bateau.Srs>>)
             /\ bateau.Sab = 0 /\ bateau.Sas = 0
        ELSE IF 0 < bateau.hT /\ bateau.hT < Depth(bateau)
        THEN /\ last.ret = FMax(<<bateau.Sab, bateau.Sas>>)
             /\ bateau.Shb = 0 /\ bateau.Srb = 0 /\ bateau.Srs = 0
        ELSE /\ bateau.hT = Depth(bateau)
             /\ last.ret = FMax(<<bateau.Sab, bateau.Sas, bateau.Srb,
                                  bateau.Srs>>)
             /\ bateau.Shb = 0

\* In a canal the Romisch stern squat is above both Ankudinov squats and is
\* the squat returned.
C7_Romisch_governs_canal ==
    /\ Returned("calculate_squat")
    /\ bateau.hT = Depth(bateau)
    /\ FGt(bateau.Srs, bateau.Sab) /\ FGt(bateau.Srs, bateau.Sas)
    /\ last.ret = bateau.Srs

C9_domain_error ==
    last.op = "calculate_squat" /\ bateau.hT = 0 /\ bateau.Fnh # None =>
        /\ FGe(bateau.Fnh, SC) => last.exc # "none"
        /\ last.exc = "none" => IsFinite(last.ret)

\* C10: calculation_init raises when 1 - As/Ach is outside [-1, 1]; it never
\* stores a NaN Kc and never returns a NaN limit speed.
C10_domain_error ==
    last.op = "calculation_init" /\ bateau.Kc # None =>
        /\ ~(/\ FLe(-SC, FSub(SC, FDiv(bateau.As, bateau.Ach)))
             /\ FLe(FSub(SC, FDiv(bateau.As, bateau.Ach)), SC))
           => last.exc # "none"
        /\ ~IsNaN(bateau.Kc)
        /\ last.exc = "none" => ~IsNaN(last.ret[2])
\* C11: calculation_init called again on an object no field of which was
\* changed since the call before yields the same Weff, Vlim, Ach and Vcr as
\* that call, also when that call clamped hT or stored a derived C_WP, C_M.
C11_idempotent ==
    Returned("calculation_init") /\ ~last.edited /\ last.before.Vlim # None
    =>  /\ bateau.Weff = last.before.Weff
        /\ bateau.Vlim = last.before.Vlim
        /\ bateau.Ach = last.before.Ach
        /\ bateau.Vcr = last.before.Vcr
        /\ last.ret = <<last.before.Weff, last.before.Vlim>>

\* calculation_init returned a second time on an object whose first call
\* clamped hT and derived C_M.
C11_called_again ==
    /\ Returned("calculation_init") /\ ~last.edited
    /\ last.before.Vlim # None
    /\ data.hT > Depth(bateau) /\ data.C_M = None
    /\ last.before.hT = Depth(bateau) /\ last.before.C_M # None

\* C12: a call of calculation_init or calculate_squat that raises leaves the
\* input fields hT, C_WP, C_M and the derived fields Tm, Ukc, C_B, Weff, As,
\* Ach, Vcr, Vlim as they were before the call.
C12_no_partial_update ==
    last.op # "none" /\ last.exc # "none" /\ pc # "edited" =>
        /\ bateau.hT = last.before.hT
        /\ bateau.C_WP = last.before.C_WP /\ bateau.C_M = last.before.C_M
        /\ bateau.Tm = last.before.Tm /\ bateau.Ukc = last.before.Ukc
        /\ bateau.C_B = last.before.C_B /\ bateau.Weff = last.before.Weff
        /\ bateau.As = last.before.As /\ bateau.Ach = last.before.Ach
        /\ bateau.Vcr = last.before.Vcr /\ bateau.Vlim = last.before.Vlim

\* C13: in all three channel types calculate_squat returns a squat that is
\* not negative, for every object that calculation_init accepts and every
\* speed above 0 at which the formulas give a number.
C13_squat_not_negative ==
    Returned("calculate_squat") /\ FGt(last.v, 0) /\ ~IsNaN(last.ret)
    => FGe(last.ret, 0)

\* C14: calculation_init on an object one of whose dimensions L, B, Tm,
\* Displ, rho is zero or negative, or whose Npro is not positive, raises
\* the error of a failed assertion.
C14_dimensions_rejected ==
    /\ last.op = "calculation_init"
    /\ \/ last.before.Npro <= 0
       \/ \E d \in {last.before.L, last.before.B, last.before.Displ,
                    last.before.rho,
                    FDiv(FAdd(last.before.Tb, last.before.Ts), 2 * SC)} :
              FLe(d, 0)
    => last.exc = "AssertionError"

\* The object a caller builds from the input fields as they are now.
fresh == calculation_init(Enter(Vessel(data))).self

\* C15: calculation_init called on an object after a field of it was changed
\* leaves hT, C_WP, C_M, As, Ach, Vcr and Vlim as calculation_init leaves
\* them on a new object built from the fields as they are now.
C15_same_as_fresh ==
    Returned("calculation_init") /\ last.edited =>
        /\ bateau.hT = fresh.hT
        /\ bateau.C_WP = fresh.C_WP /\ bateau.C_M = fresh.C_M
        /\ bateau.As = fresh.As /\ bateau.Ach = fresh.Ach
        /\ bateau.Vcr = fresh.Vcr /\ bateau.Vlim = fresh.Vlim

\* C16: during and after the scan the index i is one of the NSamples sample
\* indices, and the scan does not end with the IndexError of a read of
\* velocity[i] past the last sample.
C16_index_in_range ==
    /\ i # None => i \in 0 .. NSamples - 1
    /\ error # "IndexError"

\* C17: the squat calculate_squat returns for a speed v is the squat it
\* returns for v on a new object with the same input fields, whatever calls
\* were made before; and while no caller has changed a field, it is the squat
\* for v of a new object built from the scenario.
C17_history_free ==
    Returned("calculate_squat") =>
        /\ last.ret = calculate_squat(Enter(Vessel(last.before)), last.v).ret
        /\ pc \notin {"edited", "again"} =>
               last.ret = calculate_squat(Enter(Vessel(data)), last.v).ret

\* calculate_squat returned a squat on an object that had evaluated another
\* speed, with another squat, in the call before.
C17_called_before ==
    /\ Returned("calculate_squat") /\ pc \notin {"edited", "again"}
    /\ last.before.Squat_v # None /\ ~IsNaN(last.before.Squat_v)
    /\ ~IsNaN(last.ret) /\ FLt(last.ret, last.before.Squat_v)
=============================================================================
